---- MODULE Spec2Model ----
(***************************************************************************)
(* LogBuddy (src/main.py): the log_entries table, the handlers that write  *)
(* it (POST /logs, the webhook background task) and the handlers that read *)
(* it (GET /logs, GET /analytics, GET /export/csv).                        *)
(*                                                                         *)
(* Every handler is an `async def` without an await in its body, run by a  *)
(* single uvicorn event loop: a handler is one atomic step.  A background  *)
(* task runs after its response was sent, as a step of its own.            *)
(*                                                                         *)
(* Time is counted in hours.  datetime.utcnow() is read as a clock that    *)
(* does not run backwards.                                                 *)
(***************************************************************************)
EXTENDS Integers, Sequences, FiniteSets, TLC

VARIABLES
    store,   \* rows of log_entries, in commit order
    now,     \* the clock read by datetime.utcnow()
    tasks,   \* BackgroundTasks: every process_webhook_data call added, in
             \* delivery order, with its payload and its position (queued,
             \* completed: returned from the try block, failed: from except)
    op,      \* the handler or task that ran last, with its inputs
    resp,    \* the last HTTP response sent
    csv,     \* the file written by the last export
    page     \* the GET /logs request and response a paging client keeps

vars == <<store, now, tasks, op, resp, csv, page>>

----------------------------------------------------------------------------
(* Bounds *)

MaxStore == 3          \* rows written, stored or queued (Spec, SpecList)
MaxStoreRecent == 12   \* rows written, stored or queued (SpecRecent)
MaxWebhookRecent == 1  \* webhook deliveries accepted (SpecRecent)
MaxNow == 25           \* hours the clock runs (Spec)
MaxNowRecent == 48     \* hours the clock runs (SpecRecent)

(* Program constants *)

WindowHours == 24      \* timedelta(hours=24)
TailLen == 10          \* recent_df.tail(10)
DefaultLimit == 100    \* limit: int = 100

----------------------------------------------------------------------------
(* Values *)

\* Optional[T]: None is the empty tuple, a present value v is <<v>>.
None == << >>
Some(v) == <<v>>

\* Python truthiness of an Optional[str]: None and "" are falsy.
TruthyStr(o) == o # None /\ o[1] # ""

\* Python truthiness of an Optional[Dict]: None and {} are falsy.
\* A mapping is a set of <<key, value>> pairs.
TruthyDict(o) == o # None /\ o[1] # {}

Min(a, b) == IF a < b THEN a ELSE b

Range(s) == {s[i] : i \in DOMAIN s}

\* A value of a mapping is a string or a mapping.
JStr(v) == <<"str", v>>
JMap(m) == <<"map", m>>

\* json.dumps of a mapping: the text lists the members one after the other,
\* each a key and the text of its value; the text of a mapping value is the
\* dump of that mapping.
RECURSIVE DumpsPairs(_)
DumpsPairs(d) ==
    IF d = {} THEN << >>
    ELSE LET p == CHOOSE q \in d : TRUE
             v == IF p[2][1] = "map"
                  THEN <<"object", DumpsPairs(p[2][2])>>
                  ELSE <<"string", p[2][2]>>
         IN  << <<p[1], v>> >> \o DumpsPairs(d \ {p})

json_dumps(d) == DumpsPairs(d)

\* An f-string's text of a value.
FormatValue(v) == IF v[1] = "str" THEN v[2] ELSE "{...}"

\* dict.get(key, default)
DictGet(d, k, default) ==
    IF \E p \in d : p[1] = k
    THEN (CHOOSE p \in d : p[1] = k)[2]
    ELSE default

----------------------------------------------------------------------------
(* The table *)

\* SQLite assigns an INTEGER PRIMARY KEY the largest rowid in the table
\* plus one (1 for an empty table).
MaxRowid(s) ==
    IF s = << >> THEN 0
    ELSE CHOOSE m \in {s[i].id : i \in DOMAIN s} :
             \A i \in DOMAIN s : s[i].id <= m

\* Mutant: the largest rowid is handed out again.
NextRowidStale(s) == IF s = << >> THEN 1 ELSE MaxRowid(s)

NextRowid(s) == MaxRowid(s) + 1

\* LogEntry(...) followed by db.add and the flush of db.commit: the id is
\* assigned by the table, the timestamp by the column default.
NewRow(s, t, level, message, source, user_id, extra_data) ==
    [id |-> NextRowid(s), timestamp |-> t, level |-> level,
     message |-> message, source |-> source, user_id |-> user_id,
     extra_data |-> extra_data]

\* Mutant: the scan returns the newest row first.
ScanNewestFirst(s) == [k \in 1..Len(s) |-> s[Len(s) + 1 - k]]

\* Mutant: the scan reads a snapshot taken before the last commit.
ScanStale(s) ==
    IF s = << >> THEN << >> ELSE SubSeq(s, 1, Len(s) - 1)

\* db.query(LogEntry) without ORDER BY: a scan of the table in rowid order.
Scan(s) ==
    LET rank(i) == Cardinality({j \in DOMAIN s :
                        \/ s[j].id < s[i].id
                        \/ s[j].id = s[i].id /\ j < i})
    IN  [k \in 1..Len(s) |-> s[CHOOSE i \in DOMAIN s : rank(i) = k - 1]]

\* Mutant: the limit is applied to the table before the offset.
LimitThenOffset(q, skip, limit) ==
    SubSeq(q, skip + 1, Min(Len(q), limit))

\* query.offset(skip).limit(limit)
OffsetLimit(q, skip, limit) ==
    SubSeq(q, skip + 1, Min(Len(q), skip + limit))

----------------------------------------------------------------------------
(* Responses *)

NoResp == [status |-> 0, kind |-> "none"]
NoPage == [kept |-> FALSE]
Error500(detail) == [status |-> 500, kind |-> "error", detail |-> detail]

Init ==
    /\ store = << >>
    /\ now = 0
    /\ tasks = << >>
    /\ op = [name |-> "init"]
    /\ resp = NoResp
    /\ csv = [written |-> FALSE, rows |-> << >>]
    /\ page = NoPage

----------------------------------------------------------------------------
(* POST /logs *)

\* Mutant: the new row is merged over the last row of the table.
create_log_entry_overwrites(level, message, source, user_id, extra_data, dbOk, refreshOk) ==
    /\ op' = [name |-> "create_log_entry", extra_data |-> extra_data,
              dbOk |-> dbOk]
    /\ IF dbOk
       THEN LET db_log == NewRow(store, now, level, message, source, user_id,
                                 IF TruthyDict(extra_data)
                                 THEN Some(json_dumps(extra_data[1]))
                                 ELSE None)
            IN  /\ store' = IF store = << >> THEN <<db_log>>
                            ELSE [store EXCEPT ![Len(store)] = db_log]
                /\ resp' = IF refreshOk
                           THEN [status |-> 200, kind |-> "log", body |-> db_log]
                           ELSE Error500("Failed to create log entry")
       ELSE /\ store' = store
            /\ resp' = Error500("Failed to create log entry")
    /\ UNCHANGED <<now, tasks, csv, page>>

\* Mutant: a failed commit is answered with the row that was not stored.
create_log_entry_silent(level, message, source, user_id, extra_data, dbOk, refreshOk) ==
    /\ op' = [name |-> "create_log_entry", extra_data |-> extra_data,
              dbOk |-> dbOk]
    /\ LET db_log == NewRow(store, now, level, message, source, user_id,
                            IF TruthyDict(extra_data)
                            THEN Some(json_dumps(extra_data[1]))
                            ELSE None)
       IN  /\ store' = IF dbOk THEN Append(store, db_log) ELSE store
           /\ resp' = IF refreshOk
                      THEN [status |-> 200, kind |-> "log", body |-> db_log]
                      ELSE Error500("Failed to create log entry")
    /\ UNCHANGED <<now, tasks, csv, page>>

\* dbOk: db.commit() succeeds; refreshOk: the db.refresh() after it succeeds.
create_log_entry(level, message, source, user_id, extra_data, dbOk, refreshOk) ==
    /\ op' = [name |-> "create_log_entry", extra_data |-> extra_data,
              dbOk |-> dbOk]
    /\ IF dbOk
       THEN LET db_log == NewRow(store, now, level, message, source, user_id,
                                 IF TruthyDict(extra_data)
                                 THEN Some(json_dumps(extra_data[1]))
                                 ELSE None)
            IN  /\ store' = Append(store, db_log)
                /\ resp' = IF refreshOk
                           THEN [status |-> 200, kind |-> "log", body |-> db_log]
                           ELSE Error500("Failed to create log entry")
       ELSE /\ store' = store
            /\ resp' = Error500("Failed to create log entry")
    /\ UNCHANGED <<now, tasks, csv, page>>

----------------------------------------------------------------------------
(* GET /logs *)

\* if level: query.filter(LogEntry.level == level), the same for source.
FilterLogs(q, level, source) ==
    LET q1 == IF TruthyStr(level)
              THEN SelectSeq(q, LAMBDA r : r.level = level[1]) ELSE q
    IN  IF TruthyStr(source)
        THEN SelectSeq(q1, LAMBDA r : r.source = source[1]) ELSE q1

get_logs(skip, limit, level, source) ==
    /\ op' = [name |-> "get_logs", skip |-> skip, limit |-> limit,
              level |-> level, source |-> source]
    /\ resp' = [status |-> 200, kind |-> "logs",
                body |-> OffsetLimit(FilterLogs(Scan(store), level, source),
                                     skip, limit)]
    /\ UNCHANGED <<store, now, tasks, csv, page>>

----------------------------------------------------------------------------
(* GET /analytics *)

\* The DataFrame built from the rows: one record per row.
AnalyticsFrame(logs) ==
    [i \in 1..Len(logs) |->
        [id |-> logs[i].id, timestamp |-> logs[i].timestamp,
         level |-> logs[i].level, source |-> logs[i].source,
         message |-> logs[i].message]]

\* Mutant: every value present is counted once.
value_counts_unique(col) == {<<v, 1>> : v \in Range(col)}

\* df[col].value_counts().to_dict(): a mapping, as a set of <<key, count>>.
value_counts(col) ==
    {<<v, Cardinality({i \in DOMAIN col : col[i] = v})>> : v \in Range(col)}

\* Mutant: df.head(n).
df_head(df, n) == SubSeq(df, 1, Min(Len(df), n))

\* df.tail(n)
df_tail(df, n) == SubSeq(df, Len(df) - Min(Len(df), n) + 1, Len(df))

\* datetime.isoformat()
isoformat(t) == ToString(t)

\* Mutant: the tail is taken of the whole frame, without the window.
RecentActivityNoWindow(df, t) ==
    LET recent == df_tail(df, TailLen)
    IN  [i \in 1..Len(recent) |->
            [recent[i] EXCEPT !.timestamp = isoformat(recent[i].timestamp)]]

\* df[df['timestamp'] >= utcnow - 24h].tail(10).to_dict('records'), the
\* timestamps then written with isoformat.
RecentActivity(df, t) ==
    LET recent_df == SelectSeq(df, LAMBDA r : r.timestamp >= t - WindowHours)
        recent    == df_tail(recent_df, TailLen)
    IN  [i \in 1..Len(recent) |->
            [recent[i] EXCEPT !.timestamp = isoformat(recent[i].timestamp)]]

\* Mutant: no fast path, the frame of an empty table has no 'level' column.
AnalyticsResponseNoFastPath(logs, t) ==
    IF logs = << >>
    THEN Error500("Failed to generate analytics")
    ELSE LET df == AnalyticsFrame(logs)
         IN  [status |-> 200, kind |-> "analytics",
              total_logs |-> Len(df),
              logs_by_level |-> value_counts([i \in DOMAIN df |-> df[i].level]),
              logs_by_source |-> value_counts([i \in DOMAIN df |-> df[i].source]),
              recent_activity |-> RecentActivity(df, t)]

\* Mutant: the histograms are computed over the rows of the window.
AnalyticsResponseWindowed(logs, t) ==
    IF logs = << >>
    THEN [status |-> 200, kind |-> "analytics", total_logs |-> 0,
          logs_by_level |-> {}, logs_by_source |-> {},
          recent_activity |-> << >>]
    ELSE LET df == AnalyticsFrame(logs)
             recent_df == SelectSeq(df, LAMBDA r : r.timestamp >= t - WindowHours)
         IN  [status |-> 200, kind |-> "analytics",
              total_logs |-> Len(df),
              logs_by_level |-> value_counts([i \in DOMAIN recent_df |-> recent_df[i].level]),
              logs_by_source |-> value_counts([i \in DOMAIN recent_df |-> recent_df[i].source]),
              recent_activity |-> RecentActivity(df, t)]

AnalyticsResponse(logs, t) ==
    IF logs = << >>
    THEN [status |-> 200, kind |-> "analytics", total_logs |-> 0,
          logs_by_level |-> {}, logs_by_source |-> {},
          recent_activity |-> << >>]
    ELSE LET df == AnalyticsFrame(logs)
         IN  [status |-> 200, kind |-> "analytics",
              total_logs |-> Len(df),
              logs_by_level |-> value_counts([i \in DOMAIN df |-> df[i].level]),
              logs_by_source |-> value_counts([i \in DOMAIN df |-> df[i].source]),
              recent_activity |-> RecentActivity(df, t)]

get_analytics ==
    /\ op' = [name |-> "get_analytics"]
    /\ resp' = AnalyticsResponse(Scan(store), now)
    /\ UNCHANGED <<store, now, tasks, csv, page>>

----------------------------------------------------------------------------
(* POST /external-api/webhook and its background task *)

\* Mutant: the handler awaits the insert before it answers.
handle_webhook_awaits(data) ==
    /\ op' = [name |-> "handle_webhook"]
    /\ tasks' = Append(tasks, [data |-> data, state |-> "completed"])
    /\ store' = Append(store,
                  NewRow(store, now, "INFO", "Webhook processed: unknown",
                         "webhook", None, Some(json_dumps(data))))
    /\ resp' = [status |-> 200, kind |-> "accepted"]
    /\ UNCHANGED <<now, csv, page>>

handle_webhook(data) ==
    /\ op' = [name |-> "handle_webhook"]
    /\ tasks' = Append(tasks, [data |-> data, state |-> "queued"])
    /\ resp' = [status |-> 200, kind |-> "accepted"]
    /\ UNCHANGED <<store, now, csv, page>>

\* Mutant: the row is built without the payload.
WebhookLogEntryNoExtra(s, t, data) ==
    NewRow(s, t, "INFO",
           "Webhook processed: "
               \o FormatValue(DictGet(data, "type", JStr("unknown"))),
           "webhook", None, None)

\* The row the task builds from its payload.
WebhookLogEntry(s, t, data) ==
    NewRow(s, t, "INFO",
           "Webhook processed: "
               \o FormatValue(DictGet(data, "type", JStr("unknown"))),
           "webhook", None, Some(json_dumps(data)))

\* The tasks still to run, and those that left no row.
Queued(ts) == {i \in DOMAIN ts : ts[i].state = "queued"}
NotCompleted(ts) == {i \in DOMAIN ts : ts[i].state # "completed"}

\* Mutant: the except block lets the failure reach the response.
process_webhook_data_raises(i, dbOk) ==
    /\ i \in Queued(tasks)
    /\ op' = [name |-> "process_webhook_data", task |-> i]
    /\ tasks' = [tasks EXCEPT ![i].state =
                    IF dbOk THEN "completed" ELSE "failed"]
    /\ store' = IF dbOk
                THEN Append(store, WebhookLogEntry(store, now, tasks[i].data))
                ELSE store
    /\ resp' = IF dbOk THEN resp ELSE Error500("Failed to process webhook")
    /\ UNCHANGED <<now, csv, page>>

\* Mutant: a task that already ran is run again.
process_webhook_data_again(i, dbOk) ==
    /\ i \in DOMAIN tasks
    /\ op' = [name |-> "process_webhook_data", task |-> i]
    /\ tasks' = [tasks EXCEPT ![i].state =
                    IF dbOk THEN "completed" ELSE "failed"]
    /\ store' = IF dbOk /\ Len(store) <= MaxStore
                THEN Append(store, WebhookLogEntry(store, now, tasks[i].data))
                ELSE store
    /\ UNCHANGED <<now, resp, csv, page>>

\* The i-th task added runs, once, when it is queued; no response is sent.
\* dbOk: db.commit() succeeds; otherwise the except block logs the error.
process_webhook_data(i, dbOk) ==
    /\ i \in Queued(tasks)
    /\ op' = [name |-> "process_webhook_data", task |-> i]
    /\ tasks' = [tasks EXCEPT ![i].state =
                    IF dbOk THEN "completed" ELSE "failed"]
    /\ store' = IF dbOk
                THEN Append(store, WebhookLogEntry(store, now, tasks[i].data))
                ELSE store
    /\ UNCHANGED <<now, resp, csv, page>>

----------------------------------------------------------------------------
(* GET /export/csv *)

\* Mutant: the first row of the table is left out of the frame.
ExportFrameSkipFirst(logs) ==
    [i \in 1..(Len(logs) - 1) |->
        [id |-> logs[i + 1].id, timestamp |-> logs[i + 1].timestamp,
         level |-> logs[i + 1].level, message |-> logs[i + 1].message,
         source |-> logs[i + 1].source, user_id |-> logs[i + 1].user_id]]

\* The DataFrame built from the rows; it has columns only when it has rows.
ExportFrame(logs) ==
    [i \in 1..Len(logs) |->
        [id |-> logs[i].id, timestamp |-> logs[i].timestamp,
         level |-> logs[i].level, message |-> logs[i].message,
         source |-> logs[i].source, user_id |-> logs[i].user_id]]

ExportColumns(df) ==
    IF df = << >> THEN << >>
    ELSE <<"id", "timestamp", "level", "message", "source", "user_id">>

\* The text of one cell: a missing value is written as the empty text.
CsvInt(n) == ToString(n)
CsvOpt(o) == IF o = None THEN "" ELSE o[1]

\* df.to_csv(index=False): the line of column names, then one line a row.
to_csv(df) ==
    <<ExportColumns(df)>> \o
    [i \in 1..Len(df) |->
        <<CsvInt(df[i].id), CsvInt(df[i].timestamp), df[i].level,
          df[i].message, df[i].source, CsvOpt(df[i].user_id)>>]

export_logs_csv(destOk) ==
    /\ op' = [name |-> "export_logs_csv"]
    /\ IF destOk
       THEN LET df == ExportFrame(Scan(store))
            IN  /\ csv' = [written |-> TRUE, rows |-> to_csv(df)]
                /\ resp' = [status |-> 200, kind |-> "export",
                            filename |-> "logs_export_" \o ToString(now),
                            records_exported |-> Len(df)]
       ELSE /\ csv' = csv
            /\ resp' = Error500("Failed to export logs")
    /\ UNCHANGED <<store, now, tasks, page>>

----------------------------------------------------------------------------
(* Time passes between two steps. *)

Tick(d) ==
    /\ now' = now + d
    /\ op' = [name |-> "tick"]
    /\ UNCHANGED <<store, tasks, resp, csv, page>>

\* A client keeps the page it was just sent, with the request it made.
\* rows is the size of the table at that moment; only the properties read it.
KeepPage ==
    /\ op.name = "get_logs"
    /\ page' = [kept |-> TRUE, skip |-> op.skip, limit |-> op.limit,
                level |-> op.level, source |-> op.source, body |-> resp.body,
                rows |-> Len(store)]
    /\ UNCHANGED <<store, now, tasks, op, resp, csv>>

----------------------------------------------------------------------------
(* Specification Spec: every handler, short tables. *)

Levels == {"INFO", "ERROR"}
UserIds == {None, Some("u1")}
TypedPayload == {<<"type", JStr("user_action")>>}
Payloads == { {}, TypedPayload }

Next ==
    \/ /\ Len(store) + Cardinality(NotCompleted(tasks)) < MaxStore
       /\ \E level \in Levels, user_id \in UserIds,
             dbOk \in BOOLEAN, refreshOk \in BOOLEAN :
            create_log_entry(level, "m", "app", user_id, None, dbOk, refreshOk)
    \/ /\ Len(store) + Cardinality(NotCompleted(tasks)) < MaxStore
       /\ handle_webhook(TypedPayload)
    \/ \E i \in DOMAIN tasks, dbOk \in BOOLEAN : process_webhook_data(i, dbOk)
    \/ get_logs(0, DefaultLimit, None, None)
    \/ get_analytics
    \/ \E destOk \in BOOLEAN : export_logs_csv(destOk)
    \/ /\ now + WindowHours + 1 <= MaxNow
       /\ Tick(WindowHours + 1)

Spec == Init /\ [][Next]_vars

----------------------------------------------------------------------------
(* Specification SpecList: GET /logs with every filter and page, over     *)
(* tables whose levels and sources include the empty string.              *)

ListLevels == {"", "INFO"}
ListSources == {"", "app"}
OptOf(S) == {None} \cup {Some(v) : v \in S}

NextList ==
    \/ /\ Len(store) < MaxStore
       /\ \E level \in ListLevels, source \in ListSources :
            create_log_entry(level, "m", source, None, None, TRUE, TRUE)
    \/ \E skip \in 0..MaxStore, limit \in 0..MaxStore :
            get_logs(skip, limit, None, None)
    \/ \E skip \in {0, 1}, limit \in {1, DefaultLimit},
          level \in OptOf(ListLevels), source \in OptOf(ListSources) :
            get_logs(skip, limit, level, source)

SpecList == Init /\ [][NextList]_vars

----------------------------------------------------------------------------
(* Specification SpecRecent: GET /analytics over tables longer than the   *)
(* tail of recent_activity, with rows on both sides of the window.        *)

WebhooksAccepted == Len(tasks)

NextRecent ==
    \/ /\ Len(store) + Cardinality(NotCompleted(tasks)) < MaxStoreRecent
       /\ create_log_entry("INFO", "m", "app", None, None, TRUE, TRUE)
    \/ /\ Len(store) + Cardinality(NotCompleted(tasks)) < MaxStoreRecent
       /\ WebhooksAccepted < MaxWebhookRecent
       /\ handle_webhook({})
    \/ \E i \in DOMAIN tasks : process_webhook_data(i, TRUE)
    \/ get_analytics
    \/ /\ now + WindowHours <= MaxNowRecent
       /\ Tick(WindowHours)

SpecRecent == Init /\ [][NextRecent]_vars

----------------------------------------------------------------------------
(* Specification SpecWebhook: webhook deliveries with and without a type, *)
(* their tasks and direct inserts in every order.  A task runs on the     *)
(* event loop once its response was sent: no queued task waits forever.   *)

NextWebhook ==
    \/ /\ Len(store) + Cardinality(NotCompleted(tasks)) < MaxStore
       /\ \E dbOk \in BOOLEAN :
            create_log_entry("INFO", "m", "app", None, None, dbOk, TRUE)
    \/ /\ Len(store) + Cardinality(NotCompleted(tasks)) < MaxStore
       /\ \E data \in Payloads : handle_webhook(data)
    \/ \E i \in DOMAIN tasks, dbOk \in BOOLEAN : process_webhook_data(i, dbOk)
    \/ get_logs(0, DefaultLimit, None, None)

TaskRuns(i) == \E dbOk \in BOOLEAN : process_webhook_data(i, dbOk)

SpecWebhook ==
    /\ Init
    /\ [][NextWebhook]_vars
    /\ \A i \in 1..MaxStore : WF_vars(TaskRuns(i))

----------------------------------------------------------------------------
(* Specification SpecExtra: POST /logs with and without extra_data, the   *)
(* empty mapping and a nested mapping included.                           *)

FlatExtra == {<<"version", JStr("1.0.0")>>}
NestedExtra == {<<"version", JStr("1.0.0")>>,
                <<"env", JMap({<<"name", JStr("test")>>})>>}
ExtraDatas == {None, Some({}), Some(FlatExtra), Some(NestedExtra)}

NextExtra ==
    \/ /\ Len(store) < MaxStore
       /\ \E extra_data \in ExtraDatas, dbOk \in BOOLEAN :
            create_log_entry("INFO", "m", "app", None, extra_data, dbOk, TRUE)
    \/ get_logs(0, DefaultLimit, None, None)

SpecExtra == Init /\ [][NextExtra]_vars

----------------------------------------------------------------------------
(* Specification SpecPage: a client reads the table a page at a time,     *)
(* keeping the first page, while POST /logs and webhook tasks insert.     *)

NextPage ==
    \/ /\ Len(store) + Cardinality(NotCompleted(tasks)) < MaxStore
       /\ create_log_entry("INFO", "m", "app", None, None, TRUE, TRUE)
    \/ /\ Len(store) + Cardinality(NotCompleted(tasks)) < MaxStore
       /\ handle_webhook({})
    \/ \E i \in DOMAIN tasks : process_webhook_data(i, TRUE)
    \/ \E limit \in 0..MaxStore :
          \E skip \in {0, limit} : get_logs(skip, limit, None, None)
    \/ KeepPage

SpecPage == Init /\ [][NextPage]_vars

----------------------------------------------------------------------------
(* Properties *)

IdsOf(rows) == {rows[i].id : i \in DOMAIN rows}
RowOfId(n) == CHOOSE r \in Range(store) : r.id = n

\* The rows of the table in ascending id order, each placed by the number
\* of rows with a smaller id.
RankOf(r) == Cardinality({q \in Range(store) : q.id < r.id})
InIdOrder(body, skipped) ==
    \A i \in DOMAIN body :
        /\ body[i] \in Range(store)
        /\ RankOf(body[i]) = skipped + i - 1

RECURSIVE SumCounts(_)
SumCounts(m) ==
    IF m = {} THEN 0
    ELSE LET p == CHOOSE q \in m : TRUE
         IN  p[2] + SumCounts(m \ {p})

\* C1: the ids of the table are pairwise distinct and strictly increasing
\* in commit order, whichever of POST /logs and the webhook task wrote each
\* row, and the row returned by a successful POST /logs is the row last
\* committed, with an id above every other id of the table.
C1_IdsStrictlyIncreasing ==
    /\ \A i, j \in DOMAIN store : i < j => store[i].id < store[j].id
    /\ (op.name = "create_log_entry" /\ resp.status = 200) =>
          /\ store # << >>
          /\ resp.body = store[Len(store)]
          /\ \A i \in 1..(Len(store) - 1) : store[i].id < resp.body.id

C1_Witness ==
    /\ Len(store) >= 3
    /\ \E i, j \in DOMAIN store :
          i < j /\ store[i].source = "webhook" /\ store[j].source = "app"
    /\ \E i, j \in DOMAIN store :
          i < j /\ store[i].source = "app" /\ store[j].source = "webhook"

\* C4: GET /analytics returns total_logs equal to the number of rows of the
\* table, and over a table that is not empty the counts of logs_by_level
\* add up to total_logs and so do the counts of logs_by_source.
C4_TotalsAgree ==
    op.name = "get_analytics" =>
        /\ resp.status = 200
        /\ resp.total_logs = Len(store)
        /\ store # << >> =>
              /\ SumCounts(resp.logs_by_level) = resp.total_logs
              /\ SumCounts(resp.logs_by_source) = resp.total_logs

C4_Witness ==
    /\ op.name = "get_analytics"
    /\ Len(store) = MaxStore
    /\ \E i, j \in DOMAIN store : i # j /\ store[i].level = store[j].level
    /\ \E i, j \in DOMAIN store : store[i].source # store[j].source

\* C5: the keys of logs_by_level are exactly the levels present in the
\* table, each mapped to the number of rows of the whole table (inside the
\* 24-hour window or not) with that level; the same for logs_by_source.
HistogramOf(m, column) ==
    /\ {p[1] : p \in m} = Range(column)
    /\ \A p \in m : p[2] = Cardinality({i \in DOMAIN column : column[i] = p[1]})
    /\ \A p, q \in m : p[1] = q[1] => p = q

C5_Histograms ==
    op.name = "get_analytics" =>
        /\ resp.status = 200
        /\ HistogramOf(resp.logs_by_level,
                       [i \in DOMAIN store |-> store[i].level])
        /\ HistogramOf(resp.logs_by_source,
                       [i \in DOMAIN store |-> store[i].source])

C5_Witness ==
    /\ op.name = "get_analytics"
    /\ \E i, j \in DOMAIN store :
          /\ store[i].timestamp < now - WindowHours
          /\ store[j].timestamp >= now - WindowHours
          /\ store[i].level # store[j].level
          /\ store[i].source # store[j].source
    /\ \E p \in resp.logs_by_level : p[2] >= 2

\* C8: over an empty table GET /analytics answers 200 with total_logs 0,
\* empty logs_by_level and logs_by_source, and an empty recent_activity.
C8_EmptyStore ==
    (op.name = "get_analytics" /\ store = << >>) =>
        /\ resp.status = 200
        /\ resp.total_logs = 0
        /\ resp.logs_by_level = {}
        /\ resp.logs_by_source = {}
        /\ resp.recent_activity = << >>

C8_Witness ==
    /\ op.name = "get_analytics"
    /\ store = << >>
    /\ now > 0

\* C9: a successful export reports as many records as the table has rows
\* and writes, after its first line, one line a row in table order, of six
\* cells: the texts of the row's id, timestamp, level, message, source and
\* user_id (an absent user_id is the empty text); extra_data is not written.
C9_ExportRows ==
    (op.name = "export_logs_csv" /\ resp.status = 200) =>
        /\ resp.records_exported = Len(store)
        /\ csv.written
        /\ Len(csv.rows) = Len(store) + 1
        /\ \A i \in DOMAIN store :
              LET line == csv.rows[i + 1]
                  e == store[i]
              IN  /\ Len(line) = 6
                  /\ line[1] = ToString(e.id)
                  /\ line[2] = ToString(e.timestamp)
                  /\ line[3] = e.level
                  /\ line[4] = e.message
                  /\ line[5] = e.source
                  /\ line[6] = (IF e.user_id = None THEN "" ELSE e.user_id[1])

C9_Witness ==
    /\ op.name = "export_logs_csv"
    /\ resp.status = 200
    /\ Len(store) = MaxStore
    /\ \E i, j \in DOMAIN store :
          /\ store[i].user_id = None
          /\ store[j].user_id # None
          /\ store[i].extra_data # None

\* C10 (as claimed): every successful export, the export of an empty table
\* included, writes as its first line the column names id, timestamp,
\* level, message, source, user_id.
C10_HeaderAlways ==
    (op.name = "export_logs_csv" /\ resp.status = 200) =>
        /\ csv.rows # << >>
        /\ csv.rows[1] = <<"id", "timestamp", "level", "message", "source", "user_id">>

\* C2: GET /logs without filters, with limit = N for 1 <= N <= row count
\* and skip = 0, returns the first N rows in ascending id order; with
\* skip = N it returns the rows that follow them in that order (at most N):
\* the two pages share no row and leave none out between them.
C2_Pagination ==
    (/\ op.name = "get_logs"
     /\ op.level = None /\ op.source = None
     /\ 1 <= op.limit /\ op.limit <= Len(store)
     /\ op.skip \in {0, op.limit}) =>
        /\ resp.status = 200
        /\ Len(resp.body) = Min(op.limit, Len(store) - op.skip)
        /\ InIdOrder(resp.body, op.skip)

C2_Witness ==
    /\ op.name = "get_logs"
    /\ op.level = None /\ op.source = None
    /\ op.limit >= 1 /\ op.skip = op.limit
    /\ Len(store) > op.limit
    /\ Len(resp.body) >= 1

\* C3 (as claimed): for any supplied level and/or source, the empty string
\* included, GET /logs with skip = 0 and a limit of at least the row count
\* returns exactly the rows whose level and source equal the supplied
\* values; a field is unrestricted only when its filter is absent.
MatchesFilter(r, level, source) ==
    /\ level # None => r.level = level[1]
    /\ source # None => r.source = source[1]

C3_ExactFilter ==
    (/\ op.name = "get_logs"
     /\ op.skip = 0
     /\ op.limit >= Len(store)) =>
        /\ resp.status = 200
        /\ \A r \in Range(store) :
              (r \in Range(resp.body)) <=> MatchesFilter(r, op.level, op.source)
        /\ Len(resp.body) = Cardinality(Range(resp.body))

\* C6: recent_activity holds at most 10 entries, each the entry of a row of
\* the table whose timestamp is not earlier than the clock minus 24 hours,
\* in ascending timestamp order.
C6_RecentBounded ==
    op.name = "get_analytics" =>
        /\ resp.status = 200
        /\ LET ra == resp.recent_activity
           IN  /\ Len(ra) <= TailLen
               /\ \A i \in DOMAIN ra :
                     /\ ra[i].id \in IdsOf(store)
                     /\ ra[i].timestamp = ToString(RowOfId(ra[i].id).timestamp)
                     /\ RowOfId(ra[i].id).timestamp >= now - WindowHours
               /\ \A i, j \in DOMAIN ra :
                     i < j => RowOfId(ra[i].id).timestamp
                                  <= RowOfId(ra[j].id).timestamp

C6_Witness ==
    /\ op.name = "get_analytics"
    /\ Len(resp.recent_activity) = TailLen
    /\ \E r \in Range(store) : r.timestamp < now - WindowHours
    /\ \E r \in Range(store) : r.source = "webhook"
    /\ \E i, j \in DOMAIN resp.recent_activity :
          resp.recent_activity[i].timestamp # resp.recent_activity[j].timestamp

\* C7: with k rows of the table inside the window, recent_activity holds
\* Min(k, 10) of them, each once, and no row of the window that it leaves
\* out is more recent than a row it holds.
InWindow == {r \in Range(store) : r.timestamp >= now - WindowHours}

C7_RecentIsTail ==
    op.name = "get_analytics" =>
        /\ resp.status = 200
        /\ LET ra == resp.recent_activity
               held == IdsOf(ra)
           IN  /\ Len(ra) = Min(Cardinality(InWindow), TailLen)
               /\ Cardinality(held) = Len(ra)
               /\ held \subseteq {r.id : r \in InWindow}
               /\ \A r \in InWindow : \A q \in InWindow :
                     (r.id \notin held /\ q.id \in held)
                         => r.timestamp <= q.timestamp

C7_Witness ==
    /\ op.name = "get_analytics"
    /\ Cardinality(InWindow) > TailLen
    /\ Len(resp.recent_activity) = TailLen
    /\ \E r \in InWindow :
          /\ r.id \notin IdsOf(resp.recent_activity)
          /\ \A q \in InWindow :
                q.id \in IdsOf(resp.recent_activity) => r.timestamp < q.timestamp

C7_ShortWindowWitness ==
    /\ op.name = "get_analytics"
    /\ Cardinality(InWindow) \in 1..(TailLen - 1)
    /\ Len(store) > Cardinality(InWindow)

\* json.loads of a text written by json.dumps.
RECURSIVE json_loads(_)
json_loads(text) ==
    {<<text[i][1],
       IF text[i][2][1] = "object"
       THEN JMap(json_loads(text[i][2][2]))
       ELSE JStr(text[i][2][2])>> : i \in DOMAIN text}

\* C11: a webhook task that is queued is eventually failed or completed,
\* and the completed tasks of a payload are matched one to one by the rows
\* derived from it: level "INFO", source "webhook", no user_id, a message
\* naming the payload's type ("unknown" without one) and an extra_data text
\* that loads back to the payload.  No other row has source "webhook".
DerivedFrom(r, data) ==
    /\ r.level = "INFO"
    /\ r.source = "webhook"
    /\ r.message = (IF data = {} THEN "Webhook processed: unknown"
                    ELSE "Webhook processed: user_action")
    /\ r.extra_data # None
    /\ json_loads(r.extra_data[1]) = data

CompletedWith(data) ==
    {i \in DOMAIN tasks : tasks[i].state = "completed" /\ tasks[i].data = data}

OneRowPerCompletedTask ==
    /\ \A data \in Payloads :
          Cardinality({i \in DOMAIN store : DerivedFrom(store[i], data)})
              = Cardinality(CompletedWith(data))
    /\ \A r \in Range(store) :
          r.source = "webhook" => \E data \in Payloads : DerivedFrom(r, data)

C11_WebhookEventuallyStored ==
    /\ []OneRowPerCompletedTask
    /\ \A i \in 1..MaxStore :
          (i \in Queued(tasks)) ~>
              (/\ i \in DOMAIN tasks
               /\ \/ tasks[i].state = "failed"
                  \/ /\ tasks[i].state = "completed"
                     /\ \E r \in Range(store) : DerivedFrom(r, tasks[i].data))

C11_Witness ==
    /\ CompletedWith({}) # {}
    /\ CompletedWith(TypedPayload) # {}
    /\ \E i \in DOMAIN tasks : tasks[i].state = "failed"

IsPrefix(a, b) == Len(a) <= Len(b) /\ SubSeq(b, 1, Len(a)) = a

\* C12: the step that accepts a webhook leaves the table as it is, adds one
\* queued task after the tasks there are and answers "accepted"; the task
\* runs in a later step, which leaves that answer as it is whether it
\* completes or fails.
C12_AcceptOnlyEnqueues ==
    [][/\ op'.name = "handle_webhook" =>
            /\ store' = store
            /\ Len(tasks') = Len(tasks) + 1
            /\ IsPrefix(tasks, tasks')
            /\ tasks'[Len(tasks')].state = "queued"
            /\ resp' = [status |-> 200, kind |-> "accepted"]
       /\ op'.name = "process_webhook_data" =>
            /\ tasks[op'.task].state = "queued"
            /\ resp' = resp]_vars

C12_Witness ==
    /\ op.name = "handle_webhook"
    /\ resp = [status |-> 200, kind |-> "accepted"]
    /\ store # << >>
    /\ \E i \in DOMAIN tasks : tasks[i].state = "failed"
    /\ tasks[Len(tasks)].state = "queued"

\* C13: a step in which a webhook task fails changes nothing but the
\* position of that task: the response last sent stays as it is and the
\* table is unchanged; the table never holds a row of a task that failed
\* (its rows with source "webhook" are as many as the completed tasks).
WebhookRows == {i \in DOMAIN store : store[i].source = "webhook"}

C13_TaskFailureAbsorbed ==
    /\ [](Cardinality(WebhookRows)
            = Cardinality({i \in DOMAIN tasks : tasks[i].state = "completed"}))
    /\ [][(/\ op'.name = "process_webhook_data"
           /\ tasks'[op'.task].state = "failed") =>
              /\ resp' = resp
              /\ store' = store
              /\ csv' = csv
              /\ \A i \in DOMAIN tasks : i # op'.task => tasks'[i] = tasks[i]]_vars

C13_Witness ==
    /\ op.name = "process_webhook_data"
    /\ tasks[op.task].state = "failed"
    /\ resp = [status |-> 200, kind |-> "accepted"]
    /\ Cardinality(WebhookRows) >= 1

\* C14 (as claimed): a row created by POST /logs with an extra_data mapping,
\* the empty mapping included, holds a text that loads back to that
\* mapping; a row created without extra_data holds none; the row answered
\* is the row stored.
C14_ExtraDataRoundTrip ==
    (op.name = "create_log_entry" /\ resp.status = 200) =>
        /\ store # << >>
        /\ resp.body = store[Len(store)]
        /\ IF op.extra_data = None
           THEN resp.body.extra_data = None
           ELSE /\ resp.body.extra_data # None
                /\ json_loads(resp.body.extra_data[1]) = op.extra_data[1]

\* C15: every step leaves the rows of the table in place and unchanged: the
\* table after the step starts with the table before it.
C15_AppendOnly == [][IsPrefix(store, store')]_vars

C15_Witness ==
    /\ Len(store) = MaxStore
    /\ WebhookRows # {}
    /\ \E i \in DOMAIN store : store[i].source = "app"
    /\ csv.written
    /\ op.name = "get_analytics"

\* C16: a POST /logs whose commit fails is answered 500 with the error
\* detail, which no successful answer carries, and leaves the table as it
\* was; a POST /logs answered 200 has stored the row it answers.
C16_CreateFailureExplicit ==
    [][op'.name = "create_log_entry" =>
          /\ ~op'.dbOk =>
                /\ resp' = Error500("Failed to create log entry")
                /\ store' = store
          /\ resp'.status = 200 =>
                /\ op'.dbOk
                /\ resp'.kind = "log"
                /\ store' = Append(store, resp'.body)]_vars

C16_Witness ==
    /\ op.name = "create_log_entry"
    /\ ~op.dbOk
    /\ resp.status = 500
    /\ store # << >>

\* C17: every webhook task goes from queued to completed or to failed
\* exactly once: a delivery enters the queue as a queued task, a task
\* leaves the queued state only through its own run, a completed or failed
\* task never changes or runs again, each queued task is eventually
\* completed or failed, and the table never holds more webhook rows than
\* deliveries were accepted.
Terminal(ts) == {i \in DOMAIN ts : ts[i].state \in {"completed", "failed"}}

TaskLifecycle ==
    /\ IsPrefix([i \in DOMAIN tasks |-> tasks[i].data],
                [i \in DOMAIN tasks' |-> tasks'[i].data])
    /\ \A i \in DOMAIN tasks' \ DOMAIN tasks : tasks'[i].state = "queued"
    /\ \A i \in Terminal(tasks) :
          /\ tasks'[i] = tasks[i]
          /\ ~(op'.name = "process_webhook_data" /\ op'.task = i /\ op' # op)
    /\ \A i \in Queued(tasks) :
          tasks'[i].state # "queued" =>
              /\ tasks'[i].state \in {"completed", "failed"}
              /\ op'.name = "process_webhook_data"
              /\ op'.task = i
    /\ Len(store') - Len(store) <= 1
    /\ Len(store') > Len(store) /\ store'[Len(store')].source = "webhook" =>
          \E i \in Queued(tasks) : tasks'[i].state = "completed"

C17_TaskRunsOnce ==
    /\ [][TaskLifecycle]_vars
    /\ [](Cardinality(WebhookRows) <= Len(tasks))
    /\ \A i \in 1..MaxStore :
          (i \in Queued(tasks)) ~> (i \in Terminal(tasks))

C17_Witness ==
    /\ \E i \in DOMAIN tasks : tasks[i].state = "failed"
    /\ \E i \in DOMAIN tasks : tasks[i].state = "completed"
    /\ Cardinality(WebhookRows) = 1
    /\ Len(tasks) >= 2
    /\ op.name = "get_logs"

\* C18: whatever inserts of POST /logs and of webhook tasks came before it,
\* a read sees every row committed so far and no id without the lower ids:
\* an unfiltered GET /logs from skip 0 returns a lower-closed set of ids,
\* all of them when the limit allows; GET /analytics counts every row and
\* lists only rows of the table; the export writes one line for each id.
LowerClosed(ids) ==
    \A n \in ids : \A m \in IdsOf(store) : m < n => m \in ids

C18_ReadsSeeCommitted ==
    /\ (/\ op.name = "get_logs"
        /\ op.level = None /\ op.source = None /\ op.skip = 0) =>
          /\ IdsOf(resp.body) \subseteq IdsOf(store)
          /\ LowerClosed(IdsOf(resp.body))
          /\ Len(resp.body) = Min(op.limit, Len(store))
    /\ op.name = "get_analytics" =>
          /\ resp.total_logs = Cardinality(IdsOf(store))
          /\ IdsOf(resp.recent_activity) \subseteq IdsOf(store)
    /\ (op.name = "export_logs_csv" /\ resp.status = 200) =>
          /\ resp.records_exported = Cardinality(IdsOf(store))
          /\ {csv.rows[i][1] : i \in 2..Len(csv.rows)} =
                {ToString(n) : n \in IdsOf(store)}

C18_Witness ==
    /\ op.name = "get_logs"
    /\ Len(store) = 3
    /\ store[1].source = "app"
    /\ store[2].source = "webhook"
    /\ store[3].source = "app"
    /\ IdsOf(resp.body) = {1, 2, 3}

\* The second of two unfiltered GET /logs calls, (skip = 0, limit = N) kept
\* by the client and then (skip = N, limit = N), has been answered.
SecondPage ==
    /\ page.kept
    /\ page.level = None /\ page.source = None /\ page.skip = 0
    /\ op.name = "get_logs"
    /\ op.level = None /\ op.source = None
    /\ op.skip = page.limit /\ op.limit = page.limit

\* C19 (as claimed): whatever inserts commit between the two calls, the two
\* pages together are the first rows of the table in id order, none
\* repeated and none skipped.
C19_StablePagination ==
    SecondPage => InIdOrder(page.body \o resp.body, 0)

\* C19 (amended): when the first page was full (it holds N rows), the two
\* pages together are the first rows of the table in id order, none
\* repeated and none skipped, whatever inserts commit between the calls.
C19_StableAfterFullPage ==
    (SecondPage /\ Len(page.body) = page.limit) =>
        /\ InIdOrder(page.body \o resp.body, 0)
        /\ Len(resp.body) = Min(page.limit, Len(store) - page.limit)

C19_Witness ==
    /\ SecondPage
    /\ page.limit >= 1
    /\ Len(page.body) = page.limit
    /\ Len(store) > page.rows
    /\ \E i \in DOMAIN resp.body : resp.body[i].id > page.rows
    /\ \E i \in DOMAIN store : store[i].source = "webhook"

====
